---------------------------- MODULE Spec2Model ----------------------------
(***************************************************************************)
(* PyMdown command line front end: Convert.convert and the per-document    *)
(* pipelines Convert.html_dump (Render) and Convert.critic_dump            *)
(* (CriticDump), with the helpers get_critic_mode, get_references,         *)
(* get_title and merge_meta of __main__.py.                                *)
(*                                                                         *)
(* Python text is a sequence of one-character strings.  A front matter     *)
(* block and an engine meta-data block are single opaque elements of such  *)
(* a sequence ("FM:..." and "META:...").  Python's None is the value None  *)
(* below, which no text equals.                                            *)
(***************************************************************************)
EXTENDS Integers, Sequences, FiniteSets, TLC

\* ------------------------------------------------------------------------
\* Bounds of the model
\* ------------------------------------------------------------------------

\* longest batch handed to Convert.convert
MaxFiles == 2

\* ------------------------------------------------------------------------
\* Program constants
\* ------------------------------------------------------------------------

PASS == 0
FAIL == 1

\* lib.settings critic flags: independent bits combined by bitwise union
CRITIC_IGNORE == 0
CRITIC_ACCEPT == 1
CRITIC_REJECT == 2
CRITIC_VIEW == 4
CRITIC_DUMP == 8

\* ------------------------------------------------------------------------
\* Python values
\* ------------------------------------------------------------------------

None == <<"None">>

EmptyDict == [k \in {} |-> <<>>]

\* dict.update on a copy: every key of m2 replaces the key of m1
DictUpdate(m1, m2) ==
    [k \in (DOMAIN m1) \cup (DOMAIN m2) |-> IF k \in DOMAIN m2 THEN m2[k] ELSE m1[k]]

\* dict.get(key, default)
DictGet(m, key, default) == IF key \in DOMAIN m THEN m[key] ELSE default

\* a & b on the non-negative integers
RECURSIVE BitAnd(_, _)
BitAnd(a, b) ==
    IF a = 0 \/ b = 0 THEN 0
    ELSE 2 * BitAnd(a \div 2, b \div 2) + (IF a % 2 = 1 /\ b % 2 = 1 THEN 1 ELSE 0)

\* a | b on the non-negative integers
RECURSIVE BitOr(_, _)
BitOr(a, b) ==
    IF a = 0 THEN b
    ELSE IF b = 0 THEN a
    ELSE 2 * BitOr(a \div 2, b \div 2) + (IF a % 2 = 1 \/ b % 2 = 1 THEN 1 ELSE 0)

\* ------------------------------------------------------------------------
\* Text helpers
\* ------------------------------------------------------------------------

\* the largest i with s[i] = ch, 0 when there is none (str.rfind + 1)
RFind(s, ch) ==
    LET hits == {i \in 1..Len(s) : s[i] = ch}
    IN  IF hits = {} THEN 0 ELSE CHOOSE i \in hits : \A j \in hits : j <= i

\* the smallest i >= from with s[i] = ch, 0 when there is none
Find(s, ch, from) ==
    LET hits == {i \in from..Len(s) : s[i] = ch}
    IN  IF hits = {} THEN 0 ELSE CHOOSE i \in hits : \A j \in hits : i <= j

StartsWith(s, p) == Len(s) >= Len(p) /\ SubSeq(s, 1, Len(p)) = p

\* s.split(ch)
RECURSIVE Split(_, _)
Split(s, ch) ==
    LET i == Find(s, ch, 1)
    IN  IF i = 0 THEN <<s>>
        ELSE <<SubSeq(s, 1, i - 1)>> \o Split(SubSeq(s, i + 1, Len(s)), ch)

\* sep.join(parts)
RECURSIVE JoinWith(_, _)
JoinWith(parts, sep) ==
    IF parts = <<>> THEN <<>>
    ELSE IF Len(parts) = 1 THEN parts[1]
    ELSE parts[1] \o sep \o JoinWith(Tail(parts), sep)

\* ------------------------------------------------------------------------
\* os.path on POSIX paths
\* ------------------------------------------------------------------------

Sep == <<"/">>

\* the process's working directory
Cwd == <<"/", "w">>

\* os.path.isabs
IsAbs(p) == StartsWith(p, Sep)

\* os.path.join(a, b)
PathJoin(a, b) ==
    IF IsAbs(b) THEN b
    ELSE IF a = <<>> \/ a[Len(a)] = "/" THEN a \o b
    ELSE a \o Sep \o b

\* the components of a path that os.path.normpath keeps
RECURSIVE NormComps(_, _, _)
NormComps(comps, kept, rooted) ==
    IF comps = <<>> THEN kept
    ELSE LET c == Head(comps)
         IN  IF c = <<>> \/ c = <<".">> THEN NormComps(Tail(comps), kept, rooted)
             ELSE IF c # <<".", ".">> THEN NormComps(Tail(comps), Append(kept, c), rooted)
             ELSE IF kept # <<>> /\ kept[Len(kept)] # <<".", ".">>
                  THEN NormComps(Tail(comps), SubSeq(kept, 1, Len(kept) - 1), rooted)
             ELSE IF rooted THEN NormComps(Tail(comps), kept, rooted)
             ELSE NormComps(Tail(comps), Append(kept, c), rooted)

\* os.path.normpath
NormPath(p) ==
    IF p = <<>> THEN <<".">>
    ELSE LET slashes == IF ~IsAbs(p) THEN 0
                        ELSE IF StartsWith(p, <<"/", "/">>) /\ ~StartsWith(p, <<"/", "/", "/">>)
                             THEN 2 ELSE 1
             body == JoinWith(NormComps(Split(p, "/"), <<>>, slashes > 0), Sep)
             root == [i \in 1..slashes |-> "/"]
         IN  IF root \o body = <<>> THEN <<".">> ELSE root \o body

\* os.path.abspath
AbsPath(p) == NormPath(PathJoin(Cwd, p))

\* os.path.basename
BaseName(p) == SubSeq(p, RFind(p, "/") + 1, Len(p))

\* os.path.dirname
DirName(p) ==
    LET i == RFind(p, "/")
        head == SubSeq(p, 1, i)
    IN  IF head # <<>> /\ \E j \in 1..Len(head) : head[j] # "/"
        THEN SubSeq(head, 1, CHOOSE k \in 1..Len(head) :
                                 head[k] # "/" /\ \A j \in (k + 1)..Len(head) : head[j] = "/")
        ELSE head

\* os.path.splitext(p)[0]: the extension starts at the last dot of the last
\* component, unless only dots precede it there
SplitExtRoot(p) ==
    LET sepIdx == RFind(p, "/")
        dotIdx == RFind(p, ".")
    IN  IF dotIdx > sepIdx /\ \E j \in (sepIdx + 1)..(dotIdx - 1) : p[j] # "."
        THEN SubSeq(p, 1, dotIdx - 1)
        ELSE p


\* ------------------------------------------------------------------------
\* Texts that occur in the runs
\* ------------------------------------------------------------------------

Utf8 == <<"u", "t", "f", "-", "8">>
Custom == <<"C", "u", "s", "t", "o", "m">>
Override == <<"O", "v", "e", "r", "r", "i", "d", "e">>
EngTitle == <<"E", "n", "g">>

\* "# Title\n{++added++} and {--removed--} text."
ScenarioText == <<"#", " ", "T", "i", "t", "l", "e", "\n", "{", "+", "+", "a", "d", "d", "e", "d", "+", "+", "}", " ", "a", "n", "d", " ", "{", "-", "-", "r", "e", "m", "o", "v", "e", "d", "-", "-", "}", " ", "t", "e", "x", "t", ".">>
\* "# Title\nadded and  text."
ScenarioAccepted == <<"#", " ", "T", "i", "t", "l", "e", "\n", "a", "d", "d", "e", "d", " ", "a", "n", "d", " ", " ", "t", "e", "x", "t", ".">>
\* "# Title\n and removed text."
ScenarioRejected == <<"#", " ", "T", "i", "t", "l", "e", "\n", " ", "a", "n", "d", " ", "r", "e", "m", "o", "v", "e", "d", " ", "t", "e", "x", "t", ".">>

File_a == <<"d", "/", "a", ".", "m", "d">>
File_b == <<"b", ".", "m", "d">>
File_c == <<"d", "/", "c", ".", "x", ".", "m", "d">>
File_e == <<"e", ".", "m", "d">>
File_n == <<"n", ".", "m", "d">>

\* the entries of a front matter "references" list
Ref_nx == <<"n", "x">>
Ref_r_enc == <<"r", ";", "l", "1">>
Ref_abs == <<"/", "a">>
Ref_t == <<"t">>
Ref_s == <<"s">>
Ref_q == <<"q">>

\* a document with front matter, an engine meta-data block and critic marks
FullText == <<"FM:custom", "META:eng">> \o <<"{", "+", "+", "x", "+", "+", "}">>
\* a document with an engine meta-data block only
EngText == <<"META:eng", "y">>

\* the content of a file whose bytes do not decode
Undecodable == <<"UNDECODABLE">>

\* the front matter blocks: block element -> parsed mapping
FrontMatterBlocks ==
    "FM:custom" :> [title |-> Custom, date |-> <<"D">>,
                    references |-> <<Ref_nx, Ref_r_enc, Ref_abs, Ref_t, Ref_s, Ref_q>>]

\* the engine meta-data blocks: block element -> the meta data the engine emits
EngineMetaBlocks ==
    "META:eng" :> [title |-> EngTitle, author |-> <<"E">>]

\* ------------------------------------------------------------------------
\* The file system of the runs (absolute, normalised paths)
\* ------------------------------------------------------------------------

FileContent ==
    (AbsPath(File_a) :> FullText) @@
    (AbsPath(File_b) :> Undecodable) @@
    (AbsPath(File_c) :> ScenarioText) @@
    (AbsPath(File_e) :> EngText) @@
    (<<"/", "w", "/", "d", "/", "r">> :> <<"R">>) @@
    (<<"/", "a">> :> <<"A">>) @@
    (<<"/", "u", "/", "t", "/", "t">> :> <<"T">>) @@
    (<<"/", "u", "/", "s">> :> <<"S">>)

Directories ==
    {<<"/">>, Cwd, <<"/", "w", "/", "d">>, <<"/", "w", "/", "d", "/", "q">>, <<"/", "u">>, <<"/", "u", "/", "t">>}

\* os.path.exists
PathExists(p) == AbsPath(p) \in (DOMAIN FileContent) \cup Directories

\* os.path.isfile
PathIsFile(p) == AbsPath(p) \in DOMAIN FileContent

\* codecs.open(name, "r", encoding) and f.read() succeed
Readable(name) == PathIsFile(name) /\ FileContent[AbsPath(name)] # Undecodable


\* ------------------------------------------------------------------------
\* Collaborators from lib/: critic engine, front matter, settings, engine
\* ------------------------------------------------------------------------

\* the smallest j >= from where pat occurs in text, 0 when there is none
FindSeq(text, pat, from) ==
    LET hits == {j \in from..(Len(text) - Len(pat) + 1) : SubSeq(text, j, j + Len(pat) - 1) = pat}
    IN  IF hits = {} THEN 0 ELSE CHOOSE j \in hits : \A k \in hits : j <= k

\* opening delimiter -> closing delimiter of the five critic marks
CriticClose ==
    (<<"{", "+", "+">> :> <<"+", "+", "}">>) @@
    (<<"{", "-", "-">> :> <<"-", "-", "}">>) @@
    (<<"{", "~", "~">> :> <<"~", "~", "}">>) @@
    (<<"{", "=", "=">> :> <<"=", "=", "}">>) @@
    (<<"{", ">", ">">> :> <<"<", "<", "}">>)

SubstSep == <<"~", "~", ">">>

\* what one recognised mark resolves to: the Accept or the Reject column
CriticResolveMark(open, payload, accept) ==
    CASE open = <<"{", "+", "+">> -> IF accept THEN payload ELSE <<>>
      [] open = <<"{", "-", "-">> -> IF accept THEN <<>> ELSE payload
      [] open = <<"{", "~", "~">> ->
            LET k == FindSeq(payload, SubstSep, 1)
            IN  IF accept THEN SubSeq(payload, k + 3, Len(payload))
                ELSE SubSeq(payload, 1, k - 1)
      [] open = <<"{", "=", "=">> -> payload
      [] OTHER -> <<>>

\* single left-to-right scan: a mark is an opening delimiter with the nearest
\* closing delimiter after it; an unterminated opening delimiter is plain text
RECURSIVE CriticScan(_, _, _)
CriticScan(text, i, accept) ==
    IF i > Len(text) THEN <<>>
    ELSE LET open == IF i + 2 <= Len(text) THEN SubSeq(text, i, i + 2) ELSE <<>>
             close == IF open \in DOMAIN CriticClose
                      THEN FindSeq(text, CriticClose[open], i + 3) ELSE 0
             payload == SubSeq(text, i + 3, close - 1)
             isMark == close # 0 /\ (open = <<"{", "~", "~">> => FindSeq(payload, SubstSep, 1) # 0)
         IN  IF isMark
             THEN CriticResolveMark(open, payload, accept) \o CriticScan(text, close + 3, accept)
             ELSE <<text[i]>> \o CriticScan(text, i + 1, accept)

\* critic_dump.CriticDump().dump(source, accept, view): accept and view are the
\* masked mode bits; View leaves the text as it is
CriticDumpDump(source, accept, view) ==
    IF view # 0 THEN source ELSE CriticScan(source, 1, accept # 0)

\* get_frontmatter_string(text): the leading block, parsed, and the body
get_frontmatter_string(text) ==
    IF text # <<>> /\ Head(text) \in DOMAIN FrontMatterBlocks
    THEN <<FrontMatterBlocks[Head(text)], Tail(text)>>
    ELSE <<EmptyDict, text>>

\* the front matter keys that are settings of the page, not meta data
PageKeys == {"references", "basepath", "destination", "include", "settings"}

\* settings.Settings.get(file_name, basepath, output, frontmatter) when it
\* does not raise: caller overrides replace single fields, front matter keys
\* replace whole keys of the global layer, the other keys are meta data
SettingsGet(file_name, basepath, output, frontmatter) ==
    [page |->
        [destination |-> IF output # None THEN output
                         ELSE IF file_name # None
                              THEN SplitExtRoot(file_name) \o <<".", "h", "t", "m", "l">>
                              ELSE None,
         basepath    |-> IF basepath # None THEN basepath
                         ELSE IF file_name # None THEN DirName(AbsPath(file_name))
                              ELSE None,
         references  |-> DictGet(frontmatter, "references", <<>>),
         include     |-> <<>>,
         meta        |-> [k \in (DOMAIN frontmatter) \ PageKeys |-> frontmatter[k]]],
     settings |-> [extensions |-> <<>>]]

\* MdConverts.meta after convert(): the meta data blocks of the text
EngineMeta(text) ==
    LET blocks == {i \in 1..Len(text) : text[i] \in DOMAIN EngineMetaBlocks}
    IN  IF blocks = {} THEN EmptyDict
        ELSE EngineMetaBlocks[text[CHOOSE i \in blocks : \A j \in blocks : i <= j]]

\* MdConverts.markdown after convert(): the rendering of the text
EngineMarkdown(text) ==
    <<"<html>">> \o SelectSeq(text, LAMBDA c : c \notin DOMAIN EngineMetaBlocks)

\* res.get_user_path()
UserPath == <<"/", "u">>

\* res.splitenc(entry, default): "name;encoding" or the default encoding
SplitEnc(entry, default) ==
    LET i == RFind(entry, ";")
    IN  IF i = 0 THEN <<entry, default>>
        ELSE <<SubSeq(entry, 1, i - 1), SubSeq(entry, i + 1, Len(entry))>>

\* res.load_text_resource(path, encoding) of an existing regular file
LoadTextResource(p, encoding) == FileContent[AbsPath(p)]

\* ------------------------------------------------------------------------
\* Functions of __main__.py
\* ------------------------------------------------------------------------

\* both requests kept as Accept and Reject together (used for C14)
get_critic_mode_BothFlags(args) ==
    LET acc == IF args.accept THEN BitOr(CRITIC_IGNORE, CRITIC_ACCEPT) ELSE CRITIC_IGNORE
        mode == IF args.reject THEN BitOr(acc, CRITIC_REJECT) ELSE acc
    IN  IF args.critic_dump THEN BitOr(mode, CRITIC_DUMP) ELSE mode

\* the mode started from View instead of Ignore (used for C15)
get_critic_mode_DefaultView(args) ==
    LET mode == IF args.accept /\ args.reject THEN CRITIC_VIEW
                ELSE IF args.accept THEN CRITIC_ACCEPT
                ELSE IF args.reject THEN CRITIC_REJECT
                ELSE CRITIC_VIEW
    IN  IF args.critic_dump THEN BitOr(mode, CRITIC_DUMP) ELSE mode

\* get_critic_mode(args)
get_critic_mode(args) ==
    LET mode == IF args.accept /\ args.reject THEN BitOr(CRITIC_IGNORE, CRITIC_VIEW)
                ELSE IF args.accept THEN BitOr(CRITIC_IGNORE, CRITIC_ACCEPT)
                ELSE IF args.reject THEN BitOr(CRITIC_IGNORE, CRITIC_REJECT)
                ELSE CRITIC_IGNORE
    IN  IF args.critic_dump THEN BitOr(mode, CRITIC_DUMP) ELSE mode

\* the path get_references loads one entry from, None for an unknown path
ReferencePath(file_name, basepath) ==
    LET user_path == PathJoin(UserPath, file_name)
        base_temp == IF basepath # None THEN NormPath(PathJoin(basepath, file_name)) ELSE None
        user_temp == NormPath(PathJoin(user_path, file_name))
    IN  IF ~IsAbs(file_name)
        THEN IF base_temp # None /\ PathExists(base_temp) /\ PathIsFile(base_temp)
             THEN base_temp
             ELSE IF PathExists(user_temp) /\ PathIsFile(user_temp) THEN user_temp
             ELSE None
        ELSE IF PathExists(file_name) /\ PathIsFile(file_name) THEN file_name
        ELSE None

\* get_references(references, basepath, encoding): the loop, entry by entry,
\* with the text gathered and the errors logged so far
RECURSIVE ReferencesLoop(_, _, _, _, _)
ReferencesLoop(references, basepath, encoding, text, errors) ==
    IF references = <<>> THEN [text |-> text, errors |-> errors]
    ELSE LET split == SplitEnc(Head(references), encoding)
             file_name == split[1]
             enc == split[2]
             ref_path == ReferencePath(file_name, basepath)
         IN  IF ref_path # None
             THEN ReferencesLoop(Tail(references), basepath, enc,
                                 text \o LoadTextResource(ref_path, enc), errors)
             ELSE ReferencesLoop(Tail(references), basepath, enc, text,
                                 Append(errors, [level |-> "error",
                                                 msg |-> "Could not find reference file",
                                                 arg |-> file_name]))

\* the loop left at the first entry that is not found (used for C8)
get_references_StopsAtMissing(references, basepath, encoding) ==
    LET missing == {k \in 1..Len(references) :
                       ReferencePath(SplitEnc(references[k], encoding)[1], basepath) = None}
        upTo == IF missing = {} THEN Len(references)
                ELSE (CHOOSE k \in missing : \A j \in missing : k <= j) - 1
    IN  ReferencesLoop(SubSeq(references, 1, upTo), basepath, encoding, <<>>, <<>>)

get_references(references, basepath, encoding) ==
    ReferencesLoop(references, basepath, encoding, <<>>, <<>>)

\* the title always derived from the file name (used for C5)
get_title_IgnoresOverride(file_name, title_val) ==
    IF file_name # None THEN SplitExtRoot(BaseName(AbsPath(file_name))) ELSE None

\* the derived title keeps the extension (used for C7)
get_title_KeepsExtension(file_name, title_val) ==
    IF title_val # None THEN title_val
    ELSE IF file_name # None THEN BaseName(AbsPath(file_name))
    ELSE None

\* get_title(file_name, title_val); str() of a text is that text
get_title(file_name, title_val) ==
    IF title_val # None THEN title_val
    ELSE IF file_name # None THEN SplitExtRoot(BaseName(AbsPath(file_name)))
    ELSE None

\* the update in the other order: meta1 replaces meta2 (used for C4)
merge_meta_FirstWins(meta1, meta2, title) ==
    LET meta == DictUpdate(meta2, meta1)
    IN  IF "title" \notin DOMAIN meta /\ title # None
        THEN DictUpdate(meta, [title |-> title])
        ELSE meta

\* the title set whenever one is given (used for C6)
merge_meta_AlwaysTitle(meta1, meta2, title) ==
    LET meta == DictUpdate(meta1, meta2)
    IN  IF title # None THEN DictUpdate(meta, [title |-> title]) ELSE meta

\* merge_meta(meta1, meta2, title)
merge_meta(meta1, meta2, title) ==
    LET meta == DictUpdate(meta1, meta2)
    IN  IF "title" \notin DOMAIN meta /\ title # None
        THEN DictUpdate(meta, [title |-> title])
        ELSE meta


\* ------------------------------------------------------------------------
\* State
\* ------------------------------------------------------------------------

VARIABLES
    entry,        \* "main": the mode comes from get_critic_mode(args); "api": Convert is handed a config
    args,         \* parsed command line flags accept, reject, critic_dump
    config,       \* settings.Settings: critic, is_stream, preview, encoding, output_encoding
    self,         \* Convert: output, basepath, title
    settings,     \* Convert.settings, as get_file_settings last assigned it
    settingsOwner,\* index of the document whose resolution assigned settings, 0 before
    files,        \* the argument of Convert.convert
    pc,           \* position in convert / critic_dump / html_dump
    status,       \* convert's status
    idx,          \* index in files of the document being processed (1-based)
    file_name,    \* html_dump / critic_dump parameter
    text,         \* html_dump / critic_dump parameter and local
    dstatus,      \* status local to html_dump / critic_dump
    html_title,   \* html_dump local
    out,          \* the formatter object (html or txt) of the current call
    converter,    \* the MdConverts object of the current call
    ev,           \* per document: what has happened to it
    log,          \* logger.Log entries
    ret           \* << >> while running, <<status>> once convert has returned

vars == <<entry, args, config, self, settings, settingsOwner, files, pc, status, idx,
          file_name, text, dstatus, html_title, out, converter, ev, log, ret>>

inputs == <<entry, args, config, self, files>>
locals == <<file_name, text, dstatus, html_title, out, converter>>

\* ------------------------------------------------------------------------
\* Inputs
\* ------------------------------------------------------------------------

Docs == {File_a, File_b, File_c, File_e, File_n}

StreamTexts == {ScenarioText, FullText, EngText}

SeqsUpTo(S, n) == UNION {[1..k -> S] : k \in 0..n}

\* what get_files can hand over, and the degenerate arguments convert rejects
FileLists == SeqsUpTo(Docs, MaxFiles) \cup {None, <<None>>, << <<>> >>, << <<>>, File_c >>}

\* get_sources: the stream is the only entry, None when reading it failed
StreamLists == {<<t>> : t \in StreamTexts} \cup {<<None>>, << <<>> >>}

ArgSets == [accept : BOOLEAN, reject : BOOLEAN, critic_dump : BOOLEAN]

NoArgs == [accept |-> FALSE, reject |-> FALSE, critic_dump |-> FALSE]

\* every union of the critic flags
CriticModes == 0..(CRITIC_ACCEPT + CRITIC_REJECT + CRITIC_VIEW + CRITIC_DUMP)

\* the modes main builds; a caller of Convert can supply the other ones too
MainModes == {get_critic_mode(a) : a \in ArgSets}

\* the caller overrides of a run: --output, --basepath, --title
Overrides ==
    {[output |-> None, basepath |-> None, title |-> None],
     [output |-> None, basepath |-> None, title |-> Override],
     [output |-> <<"o">>, basepath |-> <<"d">>, title |-> None]}

Unset == [page |-> <<>>, settings |-> <<>>]

NoObject == [kind |-> "none", name |-> None, state |-> "none", content |-> <<>>, meta |-> EmptyDict]

NoConverter == [markdown |-> <<>>, meta |-> EmptyDict]

\* what has happened to one document
EvInit ==
    [started |-> FALSE,
     readTried |-> FALSE, readOk |-> FALSE,
     fmExtracted |-> FALSE,
     resolveCalled |-> FALSE, resolveOk |-> FALSE, resolveFm |-> EmptyDict,
     resolveAfterRead |-> FALSE,
     refsList |-> <<>>, refsBase |-> None, refsText |-> None,
     settingsReads |-> {},
     destTried |-> FALSE, destKind |-> "none", handle |-> "none",
     engineInvoked |-> FALSE, engineFault |-> FALSE, resolverInvoked |-> FALSE,
     resolverAccept |-> 0, resolverView |-> 0,
     writeTried |-> FALSE, written |-> FALSE, artifact |-> None,
     engineMeta |-> EmptyDict, pageMeta |-> EmptyDict,
     metaSet |-> FALSE, meta |-> EmptyDict,
     previews |-> 0, previewName |-> None, previewHandle |-> "none",
     previewContent |-> None, previewPass |-> FALSE,
     outcome |-> "pending"]

Init ==
    /\ entry \in {"main", "api"}
    /\ args \in ArgSets
    /\ entry = "api" => args = NoArgs
    /\ \E critic \in CriticModes, preview \in BOOLEAN, is_stream \in BOOLEAN :
          /\ entry = "main" => critic = get_critic_mode(args)
          /\ entry = "api" => critic \notin MainModes
          /\ config = [critic |-> critic, is_stream |-> is_stream, preview |-> preview,
                       encoding |-> Utf8, output_encoding |-> Utf8]
    /\ self \in Overrides
    /\ files \in IF config.is_stream THEN StreamLists ELSE FileLists
    /\ settings = Unset
    /\ settingsOwner = 0
    /\ pc = "convert"
    /\ status = PASS
    /\ idx = 0
    /\ file_name = None
    /\ text = None
    /\ dstatus = PASS
    /\ html_title = None
    /\ out = NoObject
    /\ converter = NoConverter
    /\ ev = [i \in 1..(IF files = None THEN 0 ELSE Len(files)) |-> EvInit]
    /\ log = <<>>
    /\ ret = <<>>

LogEntry(level, msg, arg) == [level |-> level, msg |-> msg, arg |-> arg]

\* ------------------------------------------------------------------------
\* Convert.convert
\* ------------------------------------------------------------------------

\* the check without the look at the first entry (used for C19)
NothingToParse_ListOnly(fs) == fs = None \/ Len(fs) = 0

\* line 388: files is None, empty, or its first entry is '' or None
NothingToParse(fs) == fs = None \/ Len(fs) = 0 \/ fs[1] \in {<<>>, None}

\* lines 385-390: make sure there is something to process
ConvertCheck ==
    /\ pc = "convert"
    /\ IF NothingToParse(files)
       THEN /\ log' = Append(log, LogEntry("error", "Nothing to parse!", <<>>))
            /\ status' = FAIL
            /\ pc' = "return"
       ELSE /\ status' = PASS
            /\ pc' = "loop"
            /\ log' = log
    /\ idx' = 0
    /\ UNCHANGED <<inputs, locals, settings, settingsOwner, ev, ret>>

\* the loop without its break: every document is processed (used for C1)
BatchGoesOn_NoBreak(st) == TRUE

\* lines 395-396 and 403: the batch goes on only while the status is PASS
BatchGoesOn(st) == st = PASS

\* the branch selected by the Accept flag (used for C17)
BranchOf_ByAccept(critic) ==
    IF BitAnd(critic, CRITIC_ACCEPT) # 0 THEN "cd_settings" ELSE "hd_title"

\* lines 407-410: critic_dump when the Dump flag is set, html_dump otherwise
BranchOf(critic) ==
    IF BitAnd(critic, CRITIC_DUMP) # 0 THEN "cd_settings" ELSE "hd_title"

\* lines 393-410: the next document of the batch, handed to its branch
ForNext ==
    /\ pc = "loop"
    /\ idx < Len(files)
    /\ BatchGoesOn(status)
    /\ idx' = idx + 1
    /\ log' = Append(log, IF config.is_stream
                          THEN LogEntry("info", "Converting buffer...", <<>>)
                          ELSE LogEntry("info", "Converting", files[idx + 1]))
    /\ file_name' = IF ~config.is_stream THEN files[idx + 1] ELSE None
    /\ text' = IF ~config.is_stream THEN None ELSE files[idx + 1]
    /\ pc' = BranchOf(config.critic)
    /\ ev' = [ev EXCEPT ![idx + 1].started = TRUE]
    /\ dstatus' = PASS
    /\ html_title' = None
    /\ out' = NoObject
    /\ converter' = NoConverter
    /\ UNCHANGED <<inputs, settings, settingsOwner, status, ret>>

\* lines 393-396: the list is exhausted, or an error ends the batch
ForExit ==
    /\ pc = "loop"
    /\ idx >= Len(files) \/ ~BatchGoesOn(status)
    /\ pc' = "return"
    /\ UNCHANGED <<inputs, locals, settings, settingsOwner, status, idx, ev, log, ret>>

\* line 411
ConvertReturn ==
    /\ pc = "return"
    /\ ret' = <<status>>
    /\ pc' = "done"
    /\ UNCHANGED <<inputs, locals, settings, settingsOwner, status, idx, ev, log>>

\* lines 408, 410: the branch's status becomes convert's status
BranchReturn ==
    /\ pc \in {"cd_return", "hd_return"}
    /\ status' = dstatus
    /\ ev' = [ev EXCEPT ![idx].outcome = IF dstatus = PASS THEN "pass" ELSE "fail"]
    /\ pc' = "loop"
    /\ UNCHANGED <<inputs, locals, settings, settingsOwner, idx, log, ret>>


\* ------------------------------------------------------------------------
\* Convert.get_file_settings, Convert.read_file, the formatter objects
\* ------------------------------------------------------------------------

\* lines 255-263 in a document at status PASS: settings.Settings.get raises
\* or assigns self.settings; the status it returns becomes the branch's status
get_file_settings(frontmatter, raises, extracted) ==
    /\ settings' = IF raises THEN settings
                   ELSE SettingsGet(file_name, self.basepath, self.output, frontmatter)
    /\ settingsOwner' = IF raises THEN settingsOwner ELSE idx
    /\ dstatus' = IF raises THEN FAIL ELSE PASS
    /\ ev' = [ev EXCEPT ![idx].fmExtracted = extracted,
                        ![idx].resolveCalled = TRUE,
                        ![idx].resolveOk = ~raises,
                        ![idx].resolveFm = frontmatter,
                        ![idx].resolveAfterRead = ev[idx].readOk \/ config.is_stream]

\* an unreadable file read as empty text (used for C9)
read_file_EmptyOnFailure(name) ==
    IF Readable(name) THEN FileContent[AbsPath(name)] ELSE <<>>

\* lines 265-273: the text of the file, None when it cannot be opened or decoded
read_file(name) ==
    IF Readable(name) THEN FileContent[AbsPath(name)] ELSE None

\* formatter.Text(destination, encoding) / formatter.Html(destination, ...)
NewObject(kind, destination) ==
    [kind |-> kind, name |-> destination, state |-> "open", content |-> <<>>, meta |-> EmptyDict]

\* ------------------------------------------------------------------------
\* Convert.critic_dump
\* ------------------------------------------------------------------------

\* lines 277-279
CD_Settings ==
    /\ pc = "cd_settings"
    /\ \E raises \in BOOLEAN :
          /\ get_file_settings(EmptyDict, raises, FALSE)
          /\ log' = IF raises THEN Append(log, LogEntry("error", "traceback", <<>>)) ELSE log
    /\ pc' = "cd_read"
    /\ UNCHANGED <<inputs, status, idx, file_name, text, html_title, out, converter, ret>>

\* lines 281-284
CD_Read ==
    /\ pc = "cd_read"
    /\ IF dstatus = PASS /\ file_name # None
       THEN /\ text' = read_file(file_name)
            /\ dstatus' = IF read_file(file_name) = None THEN FAIL ELSE PASS
            /\ log' = IF read_file(file_name) = None
                      THEN Append(log, LogEntry("error", "Failed to open", file_name))
                      ELSE log
            /\ ev' = [ev EXCEPT ![idx].readTried = TRUE,
                                ![idx].readOk = Readable(file_name)]
       ELSE UNCHANGED <<text, dstatus, log, ev>>
    /\ pc' = "cd_create"
    /\ UNCHANGED <<inputs, settings, settingsOwner, status, idx, file_name, html_title,
                   out, converter, ret>>

\* the check left out (used for C20)
DumpUnspecified_Never(critic) == FALSE

\* line 287: neither acceptance nor rejection is specified
DumpUnspecified(critic) == BitAnd(critic, BitOr(CRITIC_REJECT, CRITIC_ACCEPT)) = 0

\* lines 286-296
CD_Create ==
    /\ pc = "cd_create"
    /\ IF dstatus # PASS
       THEN UNCHANGED <<dstatus, log, out, ev>>
       ELSE IF DumpUnspecified(config.critic)
       THEN /\ log' = Append(log, LogEntry("error",
                        "Acceptance or rejection was not specified for critic dump!", <<>>))
            /\ dstatus' = FAIL
            /\ UNCHANGED <<out, ev>>
       ELSE \E raises \in BOOLEAN :
               IF raises
               THEN /\ log' = Append(log, LogEntry("error", "Failed to create text file!", <<>>))
                    /\ dstatus' = FAIL
                    /\ ev' = [ev EXCEPT ![idx].destTried = TRUE,
                                        ![idx].settingsReads = @ \cup {settingsOwner}]
                    /\ UNCHANGED out
               ELSE /\ out' = NewObject("text", settings.page.destination)
                    /\ ev' = [ev EXCEPT ![idx].destTried = TRUE,
                                        ![idx].settingsReads = @ \cup {settingsOwner},
                                        ![idx].destKind = "text",
                                        ![idx].handle = "open"]
                    /\ UNCHANGED <<log, dstatus>>
    /\ pc' = "cd_dump"
    /\ UNCHANGED <<inputs, settings, settingsOwner, status, idx, file_name, text, html_title,
                   converter, ret>>

\* the accept argument taken from the Reject flag (used for C3)
DumpAcceptArg_FromReject(critic) == BitAnd(critic, CRITIC_REJECT)

\* line 301: the accept argument handed to CriticDump().dump
DumpAcceptArg(critic) == BitAnd(critic, CRITIC_ACCEPT)

\* line 302: the view argument handed to CriticDump().dump
DumpViewArg(critic) == BitAnd(critic, CRITIC_VIEW)

\* lines 298-305: resolve, write, close; a fault of txt.write leaves the method
CD_Dump ==
    /\ pc = "cd_dump"
    /\ IF dstatus # PASS
       THEN /\ pc' = "cd_return"
            /\ UNCHANGED <<text, out, ev>>
       ELSE LET accept == DumpAcceptArg(config.critic)
                view == DumpViewArg(config.critic)
                dumped == CriticDumpDump(text, accept, view)
            IN  /\ text' = dumped
                /\ \E raises \in BOOLEAN :
                      IF raises
                      THEN /\ pc' = "raised"
                           /\ out' = out
                           /\ ev' = [ev EXCEPT ![idx].resolverInvoked = TRUE,
                                               ![idx].resolverAccept = accept,
                                               ![idx].resolverView = view,
                                               ![idx].writeTried = TRUE,
                                               ![idx].outcome = "raised"]
                      ELSE /\ pc' = "cd_return"
                           /\ out' = [out EXCEPT !.content = dumped, !.state = "closed"]
                           /\ ev' = [ev EXCEPT ![idx].resolverInvoked = TRUE,
                                               ![idx].resolverAccept = accept,
                                               ![idx].resolverView = view,
                                               ![idx].writeTried = TRUE,
                                               ![idx].written = TRUE,
                                               ![idx].artifact = dumped,
                                               ![idx].handle = "closed"]
    /\ UNCHANGED <<inputs, settings, settingsOwner, status, idx, file_name, dstatus,
                   html_title, converter, log, ret>>

\* ------------------------------------------------------------------------
\* Convert.html_dump
\* ------------------------------------------------------------------------

\* lines 311-313
HD_Title ==
    /\ pc = "hd_title"
    /\ dstatus' = PASS
    /\ html_title' = get_title(file_name, self.title)
    /\ pc' = "hd_read"
    /\ UNCHANGED <<inputs, settings, settingsOwner, status, idx, file_name, text, out,
                   converter, ev, log, ret>>

\* lines 315-318
HD_Read ==
    /\ pc = "hd_read"
    /\ IF dstatus = PASS /\ file_name # None
       THEN /\ text' = read_file(file_name)
            /\ dstatus' = IF read_file(file_name) = None THEN FAIL ELSE PASS
            /\ log' = IF read_file(file_name) = None
                      THEN Append(log, LogEntry("error", "Failed to open", file_name))
                      ELSE log
            /\ ev' = [ev EXCEPT ![idx].readTried = TRUE,
                                ![idx].readOk = Readable(file_name)]
       ELSE UNCHANGED <<text, dstatus, log, ev>>
    /\ pc' = "hd_settings"
    /\ UNCHANGED <<inputs, settings, settingsOwner, status, idx, file_name, html_title,
                   out, converter, ret>>

\* lines 320-322: strip_frontmatter, then get_file_settings with that front matter
HD_Settings ==
    /\ pc = "hd_settings"
    /\ IF dstatus # PASS
       THEN UNCHANGED <<text, settings, settingsOwner, dstatus, ev, log>>
       ELSE LET fm == get_frontmatter_string(text)
            IN  /\ text' = fm[2]
                /\ \E raises \in BOOLEAN :
                      /\ get_file_settings(fm[1], raises, TRUE)
                      /\ log' = IF raises THEN Append(log, LogEntry("error", "traceback", <<>>))
                                ELSE log
    /\ pc' = "hd_refs"
    /\ UNCHANGED <<inputs, status, idx, file_name, html_title, out, converter, ret>>

\* lines 324-329
HD_References ==
    /\ pc = "hd_refs"
    /\ IF dstatus # PASS
       THEN UNCHANGED <<text, log, ev>>
       ELSE LET refs == get_references(DictGet(settings.page, "references", <<>>),
                                       settings.page.basepath, config.encoding)
            IN  /\ text' = text \o refs.text
                /\ log' = log \o refs.errors
                /\ ev' = [ev EXCEPT ![idx].settingsReads = @ \cup {settingsOwner},
                                    ![idx].refsList = DictGet(settings.page, "references", <<>>),
                                    ![idx].refsBase = settings.page.basepath,
                                    ![idx].refsText = refs.text]
    /\ pc' = "hd_create"
    /\ UNCHANGED <<inputs, settings, settingsOwner, status, idx, file_name, dstatus,
                   html_title, out, converter, ret>>

\* lines 331-342
HD_Create ==
    /\ pc = "hd_create"
    /\ IF dstatus # PASS
       THEN UNCHANGED <<dstatus, log, out, ev>>
       ELSE \E raises \in BOOLEAN :
               IF raises
               THEN /\ log' = Append(log, LogEntry("error", "traceback", <<>>))
                    /\ dstatus' = FAIL
                    /\ ev' = [ev EXCEPT ![idx].destTried = TRUE,
                                        ![idx].settingsReads = @ \cup {settingsOwner}]
                    /\ UNCHANGED out
               ELSE /\ out' = NewObject("html", settings.page.destination)
                    /\ ev' = [ev EXCEPT ![idx].destTried = TRUE,
                                        ![idx].settingsReads = @ \cup {settingsOwner},
                                        ![idx].destKind = "html",
                                        ![idx].handle = "open"]
                    /\ UNCHANGED <<log, dstatus>>
    /\ pc' = "hd_convert"
    /\ UNCHANGED <<inputs, settings, settingsOwner, status, idx, file_name, text, html_title,
                   converter, ret>>

\* the fault logged and the status left as it is (used for C12)
EngineFaultStatus_Unchanged == PASS

\* line 371: the status after a fault of the engine
EngineFaultStatus == FAIL

\* lines 344-371: the engine converts and its meta data is merged with the
\* front matter's, or the engine faults: log, close, FAIL
HD_Convert ==
    /\ pc = "hd_convert"
    /\ IF dstatus # PASS
       THEN UNCHANGED <<dstatus, log, out, converter, ev>>
       ELSE \E raises \in BOOLEAN :
               IF raises
               THEN /\ log' = Append(log, LogEntry("error", "traceback", <<>>))
                    /\ out' = [out EXCEPT !.state = "closed"]
                    /\ dstatus' = EngineFaultStatus
                    /\ ev' = [ev EXCEPT ![idx].engineInvoked = TRUE,
                                        ![idx].engineFault = TRUE,
                                        ![idx].settingsReads = @ \cup {settingsOwner},
                                        ![idx].handle = "closed"]
                    /\ UNCHANGED converter
               ELSE LET conv == [markdown |-> EngineMarkdown(text), meta |-> EngineMeta(text)]
                        meta == merge_meta(conv.meta, settings.page.meta, html_title)
                    IN  /\ converter' = conv
                        /\ out' = [out EXCEPT !.meta = meta]
                        /\ ev' = [ev EXCEPT ![idx].engineInvoked = TRUE,
                                            ![idx].settingsReads = @ \cup {settingsOwner},
                                            ![idx].engineMeta = conv.meta,
                                            ![idx].pageMeta = settings.page.meta,
                                            ![idx].metaSet = TRUE,
                                            ![idx].meta = meta]
                        /\ UNCHANGED <<log, dstatus>>
    /\ pc' = "hd_write"
    /\ UNCHANGED <<inputs, settings, settingsOwner, status, idx, file_name, text, html_title, ret>>

\* lines 373-380: write, close, preview; a fault of html.write leaves the method
HD_Write ==
    /\ pc = "hd_write"
    /\ IF dstatus # PASS
       THEN /\ pc' = "hd_return"
            /\ UNCHANGED <<out, ev>>
       ELSE \E raises \in BOOLEAN :
               IF raises
               THEN /\ pc' = "raised"
                    /\ out' = out
                    /\ ev' = [ev EXCEPT ![idx].writeTried = TRUE, ![idx].outcome = "raised"]
               ELSE /\ pc' = "hd_preview"
                    /\ out' = [out EXCEPT !.content = converter.markdown, !.state = "closed"]
                    /\ ev' = [ev EXCEPT ![idx].writeTried = TRUE,
                                        ![idx].written = TRUE,
                                        ![idx].artifact = converter.markdown,
                                        ![idx].handle = "closed"]
    /\ UNCHANGED <<inputs, settings, settingsOwner, status, idx, file_name, text, dstatus,
                   html_title, converter, log, ret>>

\* the preview launched whenever a name is there (used for C21)
PreviewDue_OptionIgnored(name, preview, st) == name # None /\ st = PASS

\* line 379: the output has a name, the preview option is set, the status is PASS
PreviewDue(name, preview, st) == name # None /\ preview /\ st = PASS

\* lines 378-380: auto_open(html.file.name) hands the name to the platform's
\* opener; on the default platform a failure of the opener is caught
\* (lines 120-125), so the launch is a single step that does not signal
HD_Preview ==
    /\ pc = "hd_preview"
    /\ IF PreviewDue(out.name, config.preview, dstatus)
       THEN ev' = [ev EXCEPT ![idx].previews = @ + 1,
                             ![idx].previewName = out.name,
                             ![idx].previewHandle = out.state,
                             ![idx].previewContent = out.content,
                             ![idx].previewPass = (dstatus = PASS)]
       ELSE UNCHANGED ev
    /\ pc' = "hd_return"
    /\ UNCHANGED <<inputs, settings, settingsOwner, status, idx, file_name, text, dstatus,
                   html_title, out, converter, log, ret>>

\* ------------------------------------------------------------------------
\* Specification
\* ------------------------------------------------------------------------

Next ==
    \/ ConvertCheck
    \/ ForNext
    \/ ForExit
    \/ ConvertReturn
    \/ BranchReturn
    \/ CD_Settings
    \/ CD_Read
    \/ CD_Create
    \/ CD_Dump
    \/ HD_Title
    \/ HD_Read
    \/ HD_Settings
    \/ HD_References
    \/ HD_Create
    \/ HD_Convert
    \/ HD_Write
    \/ HD_Preview

Spec == Init /\ [][Next]_vars


\* ------------------------------------------------------------------------
\* Properties
\* ------------------------------------------------------------------------

DocIds == DOMAIN ev

HasFlag(flag) == BitAnd(config.critic, flag) # 0

\* nothing of the pipeline has touched document j
Untouched(j) ==
    /\ ~ev[j].started /\ ~ev[j].readTried /\ ~ev[j].resolveCalled
    /\ ~ev[j].destTried /\ ~ev[j].engineInvoked /\ ~ev[j].resolverInvoked
    /\ ~ev[j].writeTried /\ ev[j].outcome = "pending"

\* the text document i holds before any stage: the stream, or the file's content
SourceText(i) ==
    IF config.is_stream THEN files[i]
    ELSE IF Readable(files[i]) THEN FileContent[AbsPath(files[i])] ELSE None

\* C1: the batch is processed in list order and is fail-fast: once document i
\* has ended FAIL no later document is ever read, resolved, converted or
\* written and convert returns FAIL; convert returns PASS only if every
\* document ended PASS.
C1_FailFast ==
    /\ \A i \in DocIds :
          ev[i].outcome = "fail" =>
             /\ \A j \in DocIds : j > i => Untouched(j)
             /\ ret # <<>> => ret = <<FAIL>>
    /\ \A i \in DocIds : ev[i].started => \A j \in DocIds : j < i => ev[j].outcome = "pass"
    /\ ret = <<PASS>> => \A i \in DocIds : ev[i].outcome = "pass"

\* C1 witness: convert has returned FAIL with a failed document that is not the last
C1_Witness ==
    /\ pc = "done" /\ ret = <<FAIL>>
    /\ \E i \in DocIds : ev[i].outcome = "fail" /\ i < Len(files) /\ Untouched(i + 1)

\* C2 (as claimed): with Dump set and Accept and Reject both set or both unset,
\* a document that has ended has ended FAIL, and no text was resolved for it.
C2_AmbiguousDumpFails ==
    (HasFlag(CRITIC_DUMP) /\ (HasFlag(CRITIC_ACCEPT) <=> HasFlag(CRITIC_REJECT))) =>
        \A i \in DocIds :
            /\ ev[i].outcome \in {"pending", "fail"}
            /\ ~ev[i].resolverInvoked
            /\ ~ev[i].written

\* C3: the accept argument of the critic resolver is truthy exactly when the
\* Accept flag is set; the scenario text is written as "# Title\nadded and
\* text." under Accept+Dump and as "# Title\n and removed text." under
\* Reject+Dump.
C3_DumpColumn ==
    \A i \in DocIds :
        /\ ev[i].resolverInvoked => ((ev[i].resolverAccept # 0) <=> HasFlag(CRITIC_ACCEPT))
        /\ (ev[i].written /\ SourceText(i) = ScenarioText
                /\ config.critic = BitOr(CRITIC_ACCEPT, CRITIC_DUMP))
              => ev[i].artifact = ScenarioAccepted
        /\ (ev[i].written /\ SourceText(i) = ScenarioText
                /\ config.critic = BitOr(CRITIC_REJECT, CRITIC_DUMP))
              => ev[i].artifact = ScenarioRejected

\* C3 witness: the scenario text dumped under Reject
C3_Witness ==
    \E i \in DocIds :
        /\ config.critic = BitOr(CRITIC_REJECT, CRITIC_DUMP)
        /\ SourceText(i) = ScenarioText
        /\ ev[i].resolverInvoked /\ ev[i].written
        /\ ev[i].artifact = ScenarioRejected


\* the keys the engine's meta data and the front matter's meta data share
SharedKeys(i) == (DOMAIN ev[i].engineMeta) \cap (DOMAIN ev[i].pageMeta)

\* C4 (as claimed): for every key of both the engine's and the front matter's
\* meta data the writer is handed the engine's value; the keys of one of them
\* only are carried unchanged.
C4_EngineValueWins ==
    \A i \in DocIds : ev[i].metaSet =>
        /\ \A k \in SharedKeys(i) : ev[i].meta[k] = ev[i].engineMeta[k]
        /\ \A k \in (DOMAIN ev[i].engineMeta) \ SharedKeys(i) : ev[i].meta[k] = ev[i].engineMeta[k]
        /\ \A k \in (DOMAIN ev[i].pageMeta) \ SharedKeys(i) : ev[i].meta[k] = ev[i].pageMeta[k]

\* C4 (amended): for every key of both the engine's and the front matter's
\* meta data the writer is handed the front matter's value; the keys of one of
\* them only are carried unchanged, and no key but a backfilled title is added.
C4_FrontMatterValueWins ==
    \A i \in DocIds : ev[i].metaSet =>
        /\ \A k \in SharedKeys(i) : ev[i].meta[k] = ev[i].pageMeta[k]
        /\ \A k \in (DOMAIN ev[i].engineMeta) \ SharedKeys(i) : ev[i].meta[k] = ev[i].engineMeta[k]
        /\ \A k \in (DOMAIN ev[i].pageMeta) \ SharedKeys(i) : ev[i].meta[k] = ev[i].pageMeta[k]
        /\ DOMAIN ev[i].meta \subseteq
              (DOMAIN ev[i].engineMeta) \cup (DOMAIN ev[i].pageMeta) \cup {"title"}

\* C4 witness: meta data handed over with a key of both sources whose values differ
C4_Witness ==
    \E i \in DocIds :
        /\ ev[i].metaSet
        /\ \E k \in SharedKeys(i) :
              /\ ev[i].engineMeta[k] # ev[i].pageMeta[k]
              /\ ev[i].meta[k] = ev[i].pageMeta[k]
        /\ (DOMAIN ev[i].engineMeta) \ SharedKeys(i) # {}
        /\ (DOMAIN ev[i].pageMeta) \ SharedKeys(i) # {}

\* the keys of the merged engine and front matter meta data
MergedKeys(i) == (DOMAIN ev[i].engineMeta) \cup (DOMAIN ev[i].pageMeta)

\* C5 (as claimed): with a caller title override the title handed to the
\* writer is the override, whatever the front matter or the engine defines.
C5_OverrideAlwaysWins ==
    \A i \in DocIds : (ev[i].metaSet /\ self.title # None) =>
        /\ "title" \in DOMAIN ev[i].meta
        /\ ev[i].meta["title"] = self.title

\* C5 (amended): with a caller title override the title handed to the writer
\* is the override when neither the front matter nor the engine defines a
\* title; otherwise it is the front matter's title, or else the engine's.
C5_OverrideUnlessMetaTitle ==
    \A i \in DocIds : (ev[i].metaSet /\ self.title # None) =>
        /\ "title" \in DOMAIN ev[i].meta
        /\ "title" \notin MergedKeys(i) => ev[i].meta["title"] = self.title
        /\ "title" \in DOMAIN ev[i].pageMeta => ev[i].meta["title"] = ev[i].pageMeta["title"]
        /\ "title" \in (DOMAIN ev[i].engineMeta) \ (DOMAIN ev[i].pageMeta)
              => ev[i].meta["title"] = ev[i].engineMeta["title"]

\* C5 witness: a file document without a meta data title, converted under an override
C5_Witness ==
    \E i \in DocIds :
        /\ ev[i].metaSet /\ self.title = Override /\ ~config.is_stream
        /\ "title" \notin MergedKeys(i)
        /\ ev[i].meta["title"] = Override

\* C6: a title of the merged front matter / engine meta data is the final
\* title, and the title derived from the file name is not used; front matter
\* title "Custom" without an override ends as title "Custom".
C6_TitleBackfilledOnlyWhenAbsent ==
    \A i \in DocIds : (ev[i].metaSet /\ "title" \in MergedKeys(i)) =>
        /\ ev[i].meta["title"] = IF "title" \in DOMAIN ev[i].pageMeta
                                 THEN ev[i].pageMeta["title"]
                                 ELSE ev[i].engineMeta["title"]
        /\ (self.title = None /\ "title" \in DOMAIN ev[i].pageMeta
               /\ ev[i].pageMeta["title"] = Custom) => ev[i].meta["title"] = Custom

\* C6 witness: a file whose front matter has title "Custom", no override
C6_Witness ==
    \E i \in DocIds :
        /\ ~config.is_stream /\ self.title = None /\ files[i] = File_a
        /\ ev[i].metaSet
        /\ ev[i].resolveFm = FrontMatterBlocks["FM:custom"]
        /\ ev[i].meta["title"] = Custom

\* the stem (base name without extension) of the files of the runs
ExpectedStem ==
    (File_a :> <<"a">>) @@ (File_b :> <<"b">>) @@ (File_c :> <<"c", ".", "x">>) @@
    (File_e :> <<"e">>) @@ (File_n :> <<"n">>)

\* C7: without an explicit title and without a meta data title, a document
\* read from a file gets the stem of its file name as title and a document
\* from the stream gets no title key.
C7_TitleDerivation ==
    \A i \in DocIds : (ev[i].metaSet /\ self.title = None /\ "title" \notin MergedKeys(i)) =>
        IF config.is_stream
        THEN "title" \notin DOMAIN ev[i].meta
        ELSE "title" \in DOMAIN ev[i].meta /\ ev[i].meta["title"] = ExpectedStem[files[i]]

\* C7 witness: d/c.x.md converted without any title: the title is "c.x"
C7_Witness ==
    \E i \in DocIds :
        /\ ~config.is_stream /\ self.title = None /\ files[i] = File_c
        /\ ev[i].metaSet /\ "title" \notin MergedKeys(i)
        /\ ev[i].meta["title"] = <<"c", ".", "x">>

\* the reference files the runs find, and the entries they do not find:
\* r lies in the base directory d, /a is absolute, t lies under the user
\* path as t/t; nx is nowhere, s lies under the user path as s only, q is a
\* directory
ExpectedRefsText(i) ==
    IF ev[i].refsList = <<>> THEN <<>>
    ELSE IF ev[i].refsBase # None THEN <<"R", "A", "T">>
    ELSE <<"A", "T">>

ExpectedMissing(i) ==
    IF ev[i].refsList = <<>> THEN {}
    ELSE IF ev[i].refsBase # None THEN {Ref_nx, Ref_s, Ref_q}
    ELSE {Ref_nx, <<"r">>, Ref_s, Ref_q}

\* C8: a reference entry that resolves to no existing regular file is logged
\* as an error and contributes no text, the later entries are still loaded,
\* and the document's status is not changed by it.
C8_MissingReferenceRecovered ==
    \A i \in DocIds : ev[i].refsText # None =>
        /\ ev[i].refsText = ExpectedRefsText(i)
        /\ \A name \in ExpectedMissing(i) :
              \E l \in 1..Len(log) :
                  log[l] = LogEntry("error", "Could not find reference file", name)
        /\ ev[i].outcome = "fail" =>
              \/ ev[i].destTried /\ ev[i].handle = "none"
              \/ ev[i].engineInvoked /\ ~ev[i].metaSet
        /\ (ev[i].written /\ ev[i].outcome # "pending") => ev[i].outcome = "pass"

\* C8 witness: a document with missing and with found references has ended PASS
C8_Witness ==
    \E i \in DocIds :
        /\ ev[i].refsList # <<>> /\ ExpectedMissing(i) # {}
        /\ ev[i].refsText = <<"R", "A", "T">>
        /\ ev[i].outcome = "pass"

\* C9: when opening or decoding the source file fails, in either branch, the
\* document ends FAIL, an error naming the file is logged, no output
\* destination is opened, neither the engine nor the critic resolver is
\* invoked and nothing is written.
C9_ReadFailure ==
    \A i \in DocIds : (ev[i].readTried /\ ~ev[i].readOk) =>
        /\ ev[i].outcome \in {"pending", "fail"}
        /\ pc \in {"loop", "return", "done"} => ev[i].outcome = "fail"
        /\ \E l \in 1..Len(log) : log[l] = LogEntry("error", "Failed to open", files[i])
        /\ ~ev[i].destTried /\ ev[i].handle = "none"
        /\ ~ev[i].engineInvoked /\ ~ev[i].resolverInvoked
        /\ ~ev[i].writeTried /\ ~ev[i].written

\* C9 witness: a file that exists and does not decode, in the CriticDump branch
C9_Witness ==
    \E i \in DocIds :
        /\ HasFlag(CRITIC_DUMP) /\ files[i] = File_b
        /\ ev[i].readTried /\ ~ev[i].readOk
        /\ ev[i].outcome = "fail" /\ pc = "done"

\* C10 (as claimed): a failure to construct the output destination or to
\* write the artifact makes the document's status FAIL, returned to convert,
\* and no later step of the branch runs.
C10_OutputFailureIsFail ==
    \A i \in DocIds :
        ((ev[i].destTried /\ ev[i].handle = "none") \/ (ev[i].writeTried /\ ~ev[i].written)) =>
            /\ ev[i].outcome \in {"pending", "fail"}
            /\ pc \in {"loop", "return", "done"} => ev[i].outcome = "fail"
            /\ ~ev[i].written /\ ev[i].previews = 0

\* a branch has been left for document i: by its return or by an exception
BranchLeft(i) ==
    \/ ev[i].outcome # "pending"
    \/ (idx = i /\ pc \in {"cd_return", "hd_return"})

\* C11 (as claimed): every output destination that was opened is closed on
\* every exit path of html_dump and critic_dump, the paths on which the
\* critic resolution or the write itself fails included.
C11_HandlesClosed ==
    \A i \in DocIds : BranchLeft(i) => ev[i].handle # "open"

\* C12: when the engine faults (construction, conversion or the hand-off of
\* the meta data) the destination handle is closed, no artifact is written,
\* no preview is launched, the fault is logged and the document ends FAIL.
C12_EngineFault ==
    \A i \in DocIds : ev[i].engineFault =>
        /\ ev[i].handle = "closed"
        /\ ~ev[i].writeTried /\ ~ev[i].written /\ ev[i].artifact = None
        /\ ev[i].previews = 0
        /\ \E l \in 1..Len(log) : log[l] = LogEntry("error", "traceback", <<>>)
        /\ (idx = i /\ pc \in {"hd_write", "hd_return"}) => dstatus = FAIL
        /\ ev[i].outcome \in {"pending", "fail"}
        /\ pc \in {"loop", "return", "done"} => ev[i].outcome = "fail"

\* C12 witness: an engine fault on an opened destination, preview requested,
\* the batch ended
C12_Witness ==
    \E i \in DocIds :
        /\ ev[i].engineFault /\ ev[i].destKind = "html" /\ config.preview
        /\ ev[i].outcome = "fail" /\ pc = "done" /\ ret = <<FAIL>>

\* the front matter that document i carries in its own text
OwnFrontMatter(i) == get_frontmatter_string(SourceText(i))[1]

\* C13 (as claimed): the settings a stage of document k reads are the result
\* of the resolution call made for document k with document k's own front
\* matter, never the value resolved for another document, a failed
\* resolution for document k included.
C13_SettingsOwnDocument ==
    \A k \in DocIds :
        /\ ev[k].settingsReads \subseteq {k}
        /\ ev[k].settingsReads # {} =>
              /\ ev[k].resolveOk
              /\ ev[k].resolveFm = OwnFrontMatter(k)

\* C16 (as claimed): in both branches settings resolution is invoked only
\* after the document's text has been read and its front matter extracted,
\* with the front matter just extracted from that document, and branch work
\* and the write come after the resolution.
C16_PipelineOrder ==
    \A i \in DocIds :
        /\ ev[i].resolveCalled =>
              /\ ev[i].resolveAfterRead
              /\ ev[i].fmExtracted
              /\ ev[i].resolveFm = OwnFrontMatter(i)
        /\ (ev[i].destTried \/ ev[i].engineInvoked \/ ev[i].resolverInvoked
                \/ ev[i].writeTried) => ev[i].resolveOk
        /\ ev[i].writeTried => ev[i].destTried

\* C14: the mode get_critic_mode computes never has both Accept and Reject:
\* both requested gives View and neither Accept nor Reject, exactly one
\* requested gives exactly that flag of the three, and Dump is set exactly
\* when critic-dump is requested.
C14_AcceptRejectExclusive ==
    entry = "main" =>
        /\ config.critic = get_critic_mode(args)
        /\ ~(HasFlag(CRITIC_ACCEPT) /\ HasFlag(CRITIC_REJECT))
        /\ (args.accept /\ args.reject) =>
              HasFlag(CRITIC_VIEW) /\ ~HasFlag(CRITIC_ACCEPT) /\ ~HasFlag(CRITIC_REJECT)
        /\ (args.accept /\ ~args.reject) =>
              HasFlag(CRITIC_ACCEPT) /\ ~HasFlag(CRITIC_REJECT) /\ ~HasFlag(CRITIC_VIEW)
        /\ (args.reject /\ ~args.accept) =>
              HasFlag(CRITIC_REJECT) /\ ~HasFlag(CRITIC_ACCEPT) /\ ~HasFlag(CRITIC_VIEW)
        /\ HasFlag(CRITIC_DUMP) <=> args.critic_dump

\* C14 witness: accept, reject and critic-dump all requested, and a document
\* handed to the CriticDump branch under the computed View|Dump mode
C14_Witness ==
    /\ entry = "main" /\ args.accept /\ args.reject /\ args.critic_dump
    /\ config.critic = BitOr(CRITIC_VIEW, CRITIC_DUMP)
    /\ \E i \in DocIds : ev[i].started /\ ev[i].resolveCalled

\* C15 (as claimed): with neither accept nor reject requested the computed
\* critic mode has the View flag set.
C15_DefaultIsView ==
    (entry = "main" /\ ~args.accept /\ ~args.reject) => HasFlag(CRITIC_VIEW)

\* C15 (amended): with neither accept nor reject requested the computed
\* critic mode is the Ignore value, with none of View, Accept and Reject set
\* (plus the Dump flag when critic-dump is requested).
C15_DefaultIsIgnore ==
    (entry = "main" /\ ~args.accept /\ ~args.reject) =>
        /\ ~HasFlag(CRITIC_VIEW) /\ ~HasFlag(CRITIC_ACCEPT) /\ ~HasFlag(CRITIC_REJECT)
        /\ config.critic = (IF args.critic_dump THEN CRITIC_DUMP ELSE CRITIC_IGNORE)

\* C15 witness: nothing requested, the mode is Ignore and a document has been
\* rendered under it
C15_Witness ==
    /\ entry = "main" /\ args = NoArgs /\ config.critic = CRITIC_IGNORE
    /\ \E i \in DocIds : ev[i].engineInvoked /\ ev[i].written

\* C17: the branches are exclusive and selected by the Dump flag alone: with
\* Dump set no document has the engine invoked, an HTML output object
\* created or a preview triggered; with Dump not set no document has the
\* critic dump resolver invoked or a text-dump artifact created or written.
C17_BranchByDumpFlag ==
    \A i \in DocIds :
        /\ HasFlag(CRITIC_DUMP) =>
              /\ ~ev[i].engineInvoked /\ ~ev[i].metaSet
              /\ ev[i].destKind # "html"
              /\ ev[i].previews = 0
        /\ ~HasFlag(CRITIC_DUMP) =>
              /\ ~ev[i].resolverInvoked
              /\ ev[i].destKind # "text"
        /\ (idx = i /\ pc \in {"cd_settings", "cd_read", "cd_create", "cd_dump", "cd_return"})
              => HasFlag(CRITIC_DUMP)
        /\ (idx = i /\ pc \in {"hd_title", "hd_read", "hd_settings", "hd_refs",
                               "hd_create", "hd_convert", "hd_write", "hd_preview",
                               "hd_return"})
              => ~HasFlag(CRITIC_DUMP)

\* C17 witness: a batch of two documents under Accept|Dump, both dumped as
\* text, preview requested
C17_Witness ==
    /\ config.critic = BitOr(CRITIC_ACCEPT, CRITIC_DUMP) /\ config.preview
    /\ Len(files) = 2 /\ pc = "done"
    /\ \A i \in DocIds : ev[i].resolverInvoked /\ ev[i].written /\ ev[i].destKind = "text"

\* a second witness state of C17: Accept set without Dump, the document rendered
C17_RenderWitness ==
    /\ config.critic = CRITIC_ACCEPT
    /\ \E i \in DocIds : ev[i].engineInvoked /\ ev[i].written /\ ev[i].destKind = "html"

\* the path C18 gives to one entry: the candidate under the base path first,
\* then the entry joined to the user resource path, an absolute entry itself
ClaimedReferencePath(ref, base) ==
    LET base_temp == IF base # None THEN NormPath(PathJoin(base, ref)) ELSE None
        user_temp == NormPath(PathJoin(UserPath, ref))
    IN  IF ~IsAbs(ref)
        THEN IF base_temp # None /\ PathExists(base_temp) /\ PathIsFile(base_temp)
             THEN base_temp
             ELSE IF PathExists(user_temp) /\ PathIsFile(user_temp) THEN user_temp
             ELSE None
        ELSE IF PathExists(ref) /\ PathIsFile(ref) THEN ref
        ELSE None

\* the texts of the entries C18 resolves, in the order of the list
RECURSIVE ClaimedReferencesText(_, _, _)
ClaimedReferencesText(references, base, enc) ==
    IF references = <<>> THEN <<>>
    ELSE LET split == SplitEnc(Head(references), enc)
             ref_path == ClaimedReferencePath(split[1], base)
         IN  (IF ref_path # None THEN LoadTextResource(ref_path, split[2]) ELSE <<>>)
                \o ClaimedReferencesText(Tail(references), base, split[2])

\* C18 (as claimed): get_references resolves each relative entry to the
\* first existing regular file among the candidate under the base path and
\* then the entry joined to the user resource path, an absolute entry only
\* to itself, and concatenates the loaded texts in the order of the list.
C18_ReferenceResolution ==
    \A i \in DocIds : ev[i].refsText # None =>
        ev[i].refsText = ClaimedReferencesText(ev[i].refsList, ev[i].refsBase, config.encoding)

\* C19: convert given None, an empty list, or a list whose first entry is
\* empty or None returns FAIL without processing any document: nothing is
\* read, no settings are resolved, no output destination is opened.
C19_NothingToParse ==
    (files = None \/ files = <<>> \/ files[1] = <<>> \/ files[1] = None) =>
        /\ \A i \in DocIds : Untouched(i) /\ ev[i].handle = "none"
        /\ settingsOwner = 0 /\ settings = Unset
        /\ pc \in {"convert", "return", "done"}
        /\ pc # "convert" => status = FAIL
        /\ ret # <<>> => ret = <<FAIL>>

\* C19 witness: convert has returned FAIL for a list whose first entry is
\* empty and whose second entry is a readable file
C19_Witness ==
    /\ files = << <<>>, File_c >>
    /\ pc = "done" /\ ret = <<FAIL>>
    /\ \E l \in 1..Len(log) : log[l].level = "error"

\* C20: in the CriticDump branch the accept/reject check comes before the
\* destination is created: under Dump with neither Accept nor Reject no
\* document has a destination opened, created or written and the critic
\* resolver is invoked for none; such a document ends FAIL.
C20_CheckBeforeDestination ==
    (HasFlag(CRITIC_DUMP) /\ ~HasFlag(CRITIC_ACCEPT) /\ ~HasFlag(CRITIC_REJECT)) =>
        \A i \in DocIds :
            /\ ~ev[i].destTried /\ ev[i].destKind = "none" /\ ev[i].handle = "none"
            /\ ~ev[i].writeTried /\ ev[i].artifact = None
            /\ ~ev[i].resolverInvoked
            /\ ev[i].outcome \in {"pending", "fail"}

\* C20 witness: a readable document has failed on the accept/reject check
\* under View|Dump
C20_Witness ==
    /\ config.critic = BitOr(CRITIC_VIEW, CRITIC_DUMP)
    /\ \E i \in DocIds :
          /\ ev[i].resolveOk /\ ev[i].readOk /\ ev[i].outcome = "fail"
          /\ ~ev[i].destTried
    /\ \E l \in 1..Len(log) :
          log[l] = LogEntry("error",
                            "Acceptance or rejection was not specified for critic dump!", <<>>)

\* C21: the preview is triggered at most once per document, only after the
\* document's artifact has been written and its output handle closed, only
\* with status PASS, the preview option set and a named output file; a
\* document that ends FAIL is never previewed.
C21_PreviewOnceAfterWrite ==
    \A i \in DocIds :
        /\ ev[i].previews \in {0, 1}
        /\ ev[i].previews > 0 =>
              /\ ev[i].written /\ ev[i].handle = "closed"
              /\ ev[i].previewHandle = "closed"
              /\ ev[i].previewContent = ev[i].artifact
              /\ ev[i].previewPass
              /\ config.preview
              /\ ev[i].previewName # None
              /\ ev[i].outcome \in {"pending", "pass"}
        /\ ev[i].outcome = "fail" => ev[i].previews = 0

\* C21 witness: the same file twice in a batch under the preview option, each
\* document written, closed and previewed once, the batch ended PASS
C21_Witness ==
    /\ config.preview /\ files = <<File_e, File_e>>
    /\ pc = "done" /\ ret = <<PASS>>
    /\ \A i \in DocIds :
          /\ ev[i].previews = 1 /\ ev[i].previewHandle = "closed"
          /\ ev[i].written /\ ev[i].outcome = "pass"

\* a second witness state of C21: the preview option set and a stream
\* rendered to an output without a name, not previewed
C21_UnnamedWitness ==
    /\ config.preview /\ config.is_stream /\ pc = "done" /\ ret = <<PASS>>
    /\ \E i \in DocIds : ev[i].written /\ ev[i].previews = 0

=============================================================================
